---- MODULE Spec2Model ----
(***************************************************************************)
(* A model of microAO: the adaptive optics device (aoDev.py) and the       *)
(* algorithms it calls (aoAlg.py).                                          *)
(*                                                                          *)
(* Real numbers are integers in units of a quarter: One stands for 1.0,    *)
(* Half for 0.5.  Python's None is the empty tuple, a value x that is not  *)
(* None is the one-element tuple <<x>>.                                     *)
(***************************************************************************)
EXTENDS Integers, Sequences, FiniteSets, TLC

\* ------------------------------------------------------------------ bounds
NumAct == 2          \* mirror.n_actuators
MaxModes == 2        \* largest mode dimension of a control matrix handed to set_controlMatrix
MaxIter == 2         \* largest iteration budget handed to flatten_phase
MaxRetries == 2      \* the retries of one acquisition that are counted (the count saturates)
MaxRadius == 2       \* largest region-of-interest radius handed to set_roi
TraceLen == 3        \* hardware events remembered, newest last
MaxCalls == 3        \* remote calls served in one session

\* ------------------------------------------------------------------ values
One == 4
Half == One \div 2
ValMin == 0 - 1
ValMax == One + 1

None == <<>>
Some(x) == <<x>>
IsNone(o) == o = <<>>
Val(o) == o[1]

Actuators == 1..NumAct
Vectors == [Actuators -> {ValMin, 0, Half, One, ValMax}]
Min(a, b) == IF a < b THEN a ELSE b

RECURSIVE SumSeq(_)
SumSeq(s) == IF s = <<>> THEN 0 ELSE Head(s) + SumSeq(Tail(s))

\* np.zeros(numActuators) + 0.5
HalfVector == [a \in Actuators |-> Half]

\* send: what mirror.apply_pattern is handed.  The array is clamped in place, so
\* the caller's array holds the same values afterwards.
\* (a variant that bounds from above only)
sendUpperOnly(values) ==
  [a \in DOMAIN values |-> IF values[a] > One THEN One ELSE values[a]]
send(values) ==
  LET hi == [a \in DOMAIN values |-> IF values[a] > One THEN One ELSE values[a]]
  IN  [a \in DOMAIN values |-> IF hi[a] < 0 THEN 0 ELSE hi[a]]

\* queue_patterns: what mirror.queue_patterns is handed
queue_patterns(patterns) ==
  LET hi == [p \in DOMAIN patterns |-> [a \in DOMAIN patterns[p] |->
                IF patterns[p][a] > One THEN One ELSE patterns[p][a]]]
  IN  [p \in DOMAIN patterns |-> [a \in DOMAIN patterns[p] |->
                IF hi[p][a] < 0 THEN 0 ELSE hi[p][a]]]

\* ------------------------------------------------------------------ images
\* The camera's frame: raw is its intensity level, phase the phase map the
\* unwrapper recovers from it (two pixels), nd the number of pixels of that map
\* whose second difference exceeds 2 pi, fine whether its fringes are so fine
\* that the 50x50 peak-refinement window leaves the spectrum.
CamSide == 8
Images ==
  { [id |-> 1, raw |-> 1, phase |-> <<0, 0>>,  nd |-> 0, fine |-> FALSE],
    [id |-> 2, raw |-> 1, phase |-> <<1, -1>>, nd |-> 0, fine |-> FALSE],
    [id |-> 3, raw |-> 2, phase |-> <<2, 1>>,  nd |-> 1, fine |-> TRUE] }

\* ------------------------------------------------------------------ aoAlg
\* (a variant whose disk is centred between the pixels)
MaskGridCentred(radius) ==
  [i \in 1..(2 * radius) |-> [j \in 1..(2 * radius) |->
     (2 * (i - 1 - radius) + 1) * (2 * (i - 1 - radius) + 1)
       + (2 * (j - 1 - radius) + 1) * (2 * (j - 1 - radius) + 1)
       < 4 * radius * radius]]
\* make_mask: the pixels (i, j), counted from -radius, within the disk
MaskGrid(radius) ==
  [i \in 1..(2 * radius) |-> [j \in 1..(2 * radius) |->
     (i - 1 - radius) * (i - 1 - radius) + (j - 1 - radius) * (j - 1 - radius)
       < radius * radius]]

\* a mask is a function of its radius alone: the state holds it by that radius
\* and its side, MaskGrid gives its pixels
MakeMask(radius) == [radius |-> radius, side |-> 2 * radius]

\* a control matrix: a tuple of numActuators rows of mode-dimension entries
Rows(m) == Len(m)
Cols(m) == Len(m[1])
Dot(r, z) == SumSeq([k \in 1..Len(r) |-> r[k] * z[k]])
MatVec(m, z) == [a \in 1..Rows(m) |-> Dot(m[a], z)]

\* ac_pos_from_zernike: [ok, val, err]
\* (a variant that keeps the last entries of a longer vector)
AcPosTruncateTail(cm, applied_z_modes, numActuators) ==
  IF IsNone(cm) THEN [ok |-> FALSE, val |-> <<>>, err |-> "IndexError"]
  ELSE LET m == Val(cm)
           n == Len(applied_z_modes)
       IN  IF n < Cols(m)
             THEN [ok |-> FALSE, val |-> <<>>, err |-> "ValueError"]
             ELSE LET z == IF n > Cols(m)
                             THEN SubSeq(applied_z_modes, n - Cols(m) + 1, n)
                             ELSE applied_z_modes
                      actuator_pos == MatVec(m, z)
                  IN  IF Len(actuator_pos) = numActuators
                        THEN [ok |-> TRUE, val |-> actuator_pos, err |-> ""]
                        ELSE [ok |-> FALSE, val |-> <<>>, err |-> "Exception"]
ac_pos_from_zernike(cm, applied_z_modes, numActuators) ==
  IF IsNone(cm) THEN [ok |-> FALSE, val |-> <<>>, err |-> "IndexError"]
  ELSE LET m == Val(cm)
           n == Len(applied_z_modes)
       IN  IF n < Cols(m)
             \* np.pad with the negative width n - Cols(m) raises
             THEN [ok |-> FALSE, val |-> <<>>, err |-> "ValueError"]
             ELSE LET z == IF n > Cols(m)
                             THEN SubSeq(applied_z_modes, 1, Cols(m))
                             ELSE applied_z_modes
                      actuator_pos == MatVec(m, z)
                  IN  IF Len(actuator_pos) = numActuators
                        THEN [ok |-> TRUE, val |-> actuator_pos, err |-> ""]
                        ELSE [ok |-> FALSE, val |-> <<>>, err |-> "Exception"]

\* make_fft_filter: the carrier filter built from an image, [ok, filter].  It
\* has the image's shape; the refinement window leaving the spectrum raises.
make_fft_filter(image) ==
  IF image.img.fine
    THEN [ok |-> FALSE, filter |-> None]
    ELSE [ok |-> TRUE,
          filter |-> Some([side |-> image.side, crop |-> image.crop])]

\* phase_unwrap: [ok, err, out] from the image and aoAlg's own filter and mask.
\* The spectrum is multiplied by the filter, the phase by the mask: either
\* product raises when an operand is None or the shapes differ.
phase_unwrap(alg, image) ==
  IF IsNone(alg.fft_filter) THEN [ok |-> FALSE, err |-> "TypeError", out |-> None]
  ELSE IF Val(alg.fft_filter).side # image.side
    THEN [ok |-> FALSE, err |-> "ValueError", out |-> None]
  ELSE IF IsNone(alg.mask) THEN [ok |-> FALSE, err |-> "TypeError", out |-> None]
  ELSE IF Val(alg.mask).side # image.side
    THEN [ok |-> FALSE, err |-> "ValueError", out |-> None]
  ELSE [ok |-> TRUE, err |-> "",
        out |-> Some([phase |-> image.img.phase, nd |-> image.img.nd,
                      side |-> image.side, filter |-> Val(alg.fft_filter)])]

\* The Zernike basis comes from aotools; here mode i is constant over the two
\* pixels for odd i and changes sign between them for even i.
Zernike(i) == IF i % 2 = 1 THEN <<1, 1>> ELSE <<1, 0 - 1>>

\* get_zernike_modes: the coefficients of the first noZernikeModes modes
get_zernike_modes(image_unwrap, noZernikeModes) ==
  [i \in 1..noZernikeModes |-> Dot(Zernike(i), image_unwrap.phase)]

\* np.sqrt(np.mean((true_flat - x)**2)): the root and the division keep the
\* order, so the value stands as 4 * mean(x**2), an integer for 1, 2 or 4 pixels
rms_error(pixels) == (4 \div Len(pixels)) * SumSeq([k \in 1..Len(pixels) |-> pixels[k] * pixels[k]])

\* ------------------------------------------------------------------ create_control_matrix
\* the frames of the image stack that belong to actuator a (counted from 1)
FramesOf(imageStack, numPokeSteps, a) ==
  [j \in 1..numPokeSteps |-> imageStack[(a - 1) * numPokeSteps + j]]

\* no_discontinuities > (x*y)/1000.0
\* (a variant that rejects at the threshold too)
TooTornAtThreshold(no_discontinuities, x) == no_discontinuities * 1000 >= x * x
TooTorn(no_discontinuities, x) == no_discontinuities * 1000 > x * x

\* The loop over the poke steps of one actuator: [ok, err, pokeSteps_trimmed,
\* zernikeModeAmp].  A frame that fails to unwrap raises; a frame with too many
\* discontinuities is passed over; the others add their poke value and their
\* Zernike amplitudes to the two lists.
RECURSIVE PokeLoop(_, _, _, _, _, _)
PokeLoop(alg, frames, pokeSteps, noZernikeModes, jj, lists) ==
  IF jj > Len(pokeSteps) THEN lists
  ELSE LET u == phase_unwrap(alg, frames[jj])
       IN  IF ~u.ok
             THEN [ok |-> FALSE, err |-> u.err,
                   pokeSteps_trimmed |-> <<>>, zernikeModeAmp |-> <<>>]
           ELSE IF TooTorn(Val(u.out).nd, frames[jj].side)
             THEN PokeLoop(alg, frames, pokeSteps, noZernikeModes, jj + 1, lists)
           ELSE PokeLoop(alg, frames, pokeSteps, noZernikeModes, jj + 1,
                  [lists EXCEPT
                     !.pokeSteps_trimmed = Append(@, pokeSteps[jj]),
                     !.zernikeModeAmp =
                        Append(@, get_zernike_modes(Val(u.out), noZernikeModes))])

\* stats.linregress(x, y)[0], the least-squares slope, as <<numerator, denominator>>
Slope(x, y) ==
  LET n == Len(x)
      Sx == SumSeq(x)
      Sy == SumSeq(y)
      Sxy == SumSeq([k \in 1..n |-> x[k] * y[k]])
      Sxx == SumSeq([k \in 1..n |-> x[k] * x[k]])
  IN  <<n * Sxy - Sx * Sy, n * Sxx - Sx * Sx>>

\* One included actuator: [ok, err, pokeSteps_trimmed, zernikeModeAmp, slopes].
\* Fewer than 2 frames kept raises the Exception that names the actuator.
\* (a variant that asks for 1 frame only)
FitActuatorAtLeastOne(alg, frames, pokeSteps, noZernikeModes) ==
  LET l == PokeLoop(alg, frames, pokeSteps, noZernikeModes, 1,
                    [ok |-> TRUE, err |-> "",
                     pokeSteps_trimmed |-> <<>>, zernikeModeAmp |-> <<>>])
  IN  IF ~l.ok
        THEN [ok |-> FALSE, err |-> l.err, slopes |-> <<>>,
              pokeSteps_trimmed |-> <<>>, zernikeModeAmp |-> <<>>]
      ELSE IF Len(l.pokeSteps_trimmed) < 1
        THEN [ok |-> FALSE, err |-> "Exception", slopes |-> <<>>,
              pokeSteps_trimmed |-> l.pokeSteps_trimmed,
              zernikeModeAmp |-> l.zernikeModeAmp]
      ELSE [ok |-> TRUE, err |-> "",
            pokeSteps_trimmed |-> l.pokeSteps_trimmed,
            zernikeModeAmp |-> l.zernikeModeAmp,
            slopes |-> [kk \in 1..noZernikeModes |->
                          Slope(l.pokeSteps_trimmed,
                                [k \in 1..Len(l.zernikeModeAmp) |-> l.zernikeModeAmp[k][kk]])]]
FitActuator(alg, frames, pokeSteps, noZernikeModes) ==
  LET l == PokeLoop(alg, frames, pokeSteps, noZernikeModes, 1,
                    [ok |-> TRUE, err |-> "",
                     pokeSteps_trimmed |-> <<>>, zernikeModeAmp |-> <<>>])
  IN  IF ~l.ok
        THEN [ok |-> FALSE, err |-> l.err, slopes |-> <<>>,
              pokeSteps_trimmed |-> <<>>, zernikeModeAmp |-> <<>>]
      ELSE IF Len(l.pokeSteps_trimmed) < 2
        THEN [ok |-> FALSE, err |-> "Exception", slopes |-> <<>>,
              pokeSteps_trimmed |-> l.pokeSteps_trimmed,
              zernikeModeAmp |-> l.zernikeModeAmp]
      ELSE [ok |-> TRUE, err |-> "",
            pokeSteps_trimmed |-> l.pokeSteps_trimmed,
            zernikeModeAmp |-> l.zernikeModeAmp,
            slopes |-> [kk \in 1..noZernikeModes |->
                          Slope(l.pokeSteps_trimmed,
                                [k \in 1..Len(l.zernikeModeAmp) |-> l.zernikeModeAmp[k][kk]])]]

\* np.zeros((noZernikeModes, numActuators)), held column by column
ZeroColumn(noZernikeModes) == [kk \in 1..noZernikeModes |-> <<0, 1>>]

\* np.linalg.pinv(C_mat, rcond=threshold) is numpy's: of its result the model
\* keeps the shape (numActuators rows, noZernikeModes columns) and that it is
\* zero where C_mat is zero; an entry stands as the sign of the slope.
Sign(v) == IF v > 0 THEN 1 ELSE IF v < 0 THEN 0 - 1 ELSE 0
pinv(C_mat, numActuators, noZernikeModes) ==
  [a \in 1..numActuators |-> [kk \in 1..noZernikeModes |-> Sign(C_mat[a][kk][1])]]

\* create_control_matrix as one computation: [ok, err, actuator, C_mat]
RECURSIVE ControlMatrixLoop(_, _, _, _, _, _, _, _)
ControlMatrixLoop(alg, imageStack, numActuators, noZernikeModes, pokeSteps, pupil_ac, a, C_mat) ==
  IF a > numActuators THEN [ok |-> TRUE, err |-> "", actuator |-> 0, C_mat |-> C_mat]
  ELSE IF pupil_ac[a] # 1
    THEN ControlMatrixLoop(alg, imageStack, numActuators, noZernikeModes, pokeSteps,
                           pupil_ac, a + 1, C_mat)
  ELSE LET f == FitActuator(alg, FramesOf(imageStack, Len(pokeSteps), a), pokeSteps,
                            noZernikeModes)
       IN  IF ~f.ok THEN [ok |-> FALSE, err |-> f.err, actuator |-> a, C_mat |-> C_mat]
           ELSE ControlMatrixLoop(alg, imageStack, numActuators, noZernikeModes,
                                  pokeSteps, pupil_ac, a + 1,
                                  [C_mat EXCEPT ![a] = f.slopes])

create_control_matrix(alg, imageStack, numActuators, noZernikeModes, pokeSteps, pupil_ac) ==
  LET r == ControlMatrixLoop(alg, imageStack, numActuators, noZernikeModes, pokeSteps,
                             pupil_ac, 1,
                             [a \in 1..numActuators |-> ZeroColumn(noZernikeModes)])
  IN  IF r.ok
        THEN [ok |-> TRUE, err |-> "", actuator |-> 0,
              controlMatrix |-> Some(pinv(r.C_mat, numActuators, noZernikeModes))]
        ELSE [ok |-> FALSE, err |-> r.err, actuator |-> r.actuator, controlMatrix |-> None]

\* ------------------------------------------------------------------ state
VARIABLES
  roi, mask, fft_filter, controlMatrix, flat_actuators_sys,  \* the device's fields
  aoAlg,          \* the shared AdaptiveOpticsFunctions: mask, fft_filter, controlMatrix
  handed,         \* what the running call last handed to the mirror
  trace,          \* the last TraceLen hardware events of the running call
  cam,            \* the camera's last answer in the running call
  pc, stack,      \* position of the one thread of control and its return labels
  call, args, ret,\* the remote call being served, its arguments, the last value returned
  acq, fl, cal, ass,  \* locals of acquire, flatten_phase, calibrate, assess_character
  aup,            \* locals of acquire_unwrapped_phase and of measure_zernike over it
  ccm             \* locals of create_control_matrix

vars == <<roi, mask, fft_filter, controlMatrix, flat_actuators_sys, aoAlg,
          handed, trace, cam, pc, stack, call, args, ret, acq, fl, cal, ass, aup, ccm>>

devVars == <<roi, mask, fft_filter, controlMatrix, flat_actuators_sys, aoAlg>>
localVars == <<acq, fl, cal, ass, aup, ccm>>

NoCam == [answer |-> "none", id |-> 0]
NoCall == [op |-> "", status |-> "", error |-> "", n |-> 0]
NoAcq == [raw |-> FALSE, retries |-> 0]
NoFl == [iterations |-> 0, ii |-> 0, z_modes_ignore |-> None, nzernike |-> 0,
         best_flat_actuators |-> <<>>, best_rms_error |-> 0,
         best_z_amps |-> <<>>, flat_actuators |-> <<>>, z_amps |-> <<>>,
         interferogram_unwrap |-> <<>>, rms_error |-> 0]
NoCal == [numPokeSteps |-> 0, curr |-> 0, image_stack_cropped |-> <<>>]
NoAss == [modes_tba |-> 0, ii |-> 0, z_modes_ac0 |-> <<>>, assay |-> <<>>]
NoAup == [for |-> "", noZernikeModes |-> 0]
NoCcm == [pupil_ac |-> <<>>, ii |-> 0, imageStack |-> <<>>, pokeSteps_trimmed |-> <<>>,
          zernikeModeAmp |-> <<>>, C_mat |-> <<>>, named |-> 0, previous |-> None]

Init ==
  /\ roi = None /\ mask = None /\ fft_filter = None /\ controlMatrix = None
  /\ flat_actuators_sys = [a \in Actuators |-> 0]
  /\ aoAlg = [mask |-> None, fft_filter |-> None, controlMatrix |-> None]
  /\ handed = <<>> /\ trace = <<>> /\ cam = NoCam
  /\ pc = "idle" /\ stack = <<>>
  /\ call = NoCall /\ args = <<>> /\ ret = None
  /\ acq = NoAcq /\ fl = NoFl /\ cal = NoCal /\ ass = NoAss /\ aup = NoAup /\ ccm = NoCcm

\* ------------------------------------------------------------------ control
Log(tr, e) == IF Len(tr) < TraceLen THEN Append(tr, e) ELSE Append(Tail(tr), e)

\* a remote call of a procedure that runs in steps
Begin(op, a, entry) ==
  /\ pc = "idle"
  /\ call.n < MaxCalls
  /\ call' = [op |-> op, status |-> "running", error |-> "", n |-> call.n + 1]
  /\ args' = a
  /\ pc' = entry
  /\ stack' = <<"done">>

\* a remote call served in one step: it returns v, or raises e when e is not ""
Serve(op, a, v, e) ==
  /\ pc = "idle"
  /\ call.n < MaxCalls
  /\ pc' = "done"
  /\ call' = [op |-> op, status |-> IF e = "" THEN "returned" ELSE "raised", error |-> e,
              n |-> call.n + 1]
  /\ args' = a
  /\ ret' = IF e = "" THEN Some(v) ELSE None
  /\ UNCHANGED stack

\* the value v goes back to the caller's label
Return(v) ==
  /\ pc' = Head(stack)
  /\ stack' = Tail(stack)
  /\ ret' = Some(v)
  /\ call' = IF Head(stack) = "done" THEN [call EXCEPT !.status = "returned"] ELSE call

\* nothing on the way up catches: the exception reaches the remote caller
Raise(e) ==
  /\ pc' = "done"
  /\ stack' = <<>>
  /\ ret' = None
  /\ call' = [call EXCEPT !.status = "raised", !.error = e]

\* the remote caller takes the answer; the next call starts afresh
Ack ==
  /\ pc = "done"
  /\ pc' = "idle"
  /\ call' = [NoCall EXCEPT !.n = call.n] /\ args' = <<>> /\ ret' = None
  /\ handed' = <<>> /\ trace' = <<>> /\ cam' = NoCam
  /\ acq' = NoAcq /\ fl' = NoFl /\ cal' = NoCal /\ ass' = NoAss /\ aup' = NoAup /\ ccm' = NoCcm
  /\ UNCHANGED <<devVars, stack>>


\* ------------------------------------------------------------------ mirror
\* mirror.apply_pattern(values): the mirror is handed the clamped pattern and
\* takes it (ok) or raises
Apply(values, ok) ==
  /\ handed' = <<send(values)>>
  /\ trace' = Log(trace, IF ok THEN "apply" ELSE "apply_error")

\* ------------------------------------------------------------------ one-step calls
ExtremeVectors == [Actuators -> {ValMin, ValMax}]
ModalVectors == UNION { [1..n -> {0, 1}] : n \in 0..(MaxModes + 1) }
Offsets == {None} \cup { Some([a \in Actuators |-> c]) : c \in {0, One, ValMax} }
Matrices ==
  { [a \in 1..r |-> [k \in 1..m |-> IF a = k THEN 2 ELSE 0 - 1]] :
      r \in {NumAct}, m \in 1..MaxModes }
  \cup { [a \in 1..(NumAct + 1) |-> [k \in 1..1 |-> 1]] }

Send ==
  \E values \in Vectors, ok \in BOOLEAN :
    /\ Serve("send", [values |-> values], <<>>, IF ok THEN "" ELSE "MirrorError")
    /\ Apply(values, ok)
    /\ UNCHANGED <<devVars, localVars, cam>>

QueuePatterns ==
  \E patterns \in { <<v>> : v \in ExtremeVectors }
                    \cup { <<v, w>> : v \in ExtremeVectors, w \in ExtremeVectors },
     ok \in BOOLEAN :
    /\ Serve("queue_patterns", [patterns |-> patterns], <<>>,
             IF ok THEN "" ELSE "MirrorError")
    /\ handed' = queue_patterns(patterns)
    /\ trace' = Log(trace, "queue")
    /\ UNCHANGED <<devVars, localVars, cam>>

Reset ==
  \E ok \in BOOLEAN :
    /\ Serve("reset", <<>>, <<>>, IF ok THEN "" ELSE "MirrorError")
    /\ Apply(HalfVector, ok)
    /\ UNCHANGED <<devVars, localVars, cam>>

\* set_roi(y0, x0, radius)
SetRoiTo(y0, x0, radius) ==
  /\ Serve("set_roi", [y0 |-> y0, x0 |-> x0, radius |-> radius], <<>>, "")
  /\ roi' = Some(<<y0, x0, radius>>)
  /\ mask' = Some(MakeMask(radius))
  /\ aoAlg' = [aoAlg EXCEPT !.mask = Some(MakeMask(radius))]
  /\ fft_filter' = None
  /\ UNCHANGED <<controlMatrix, flat_actuators_sys, localVars, handed, trace, cam>>

\* a region of interest about the centre of the camera's frame
SetRoi == \E radius \in 1..MaxRadius : SetRoiTo(CamSide \div 2, CamSide \div 2, radius)

\* a region of interest about the centre or one row below it
SetRoiMoved ==
  \E y0 \in {CamSide \div 2, (CamSide \div 2) + 1}, radius \in 1..MaxRadius :
    SetRoiTo(y0, CamSide \div 2, radius)

\* get_fourierfilter, get_controlMatrix: [ok, val, err]
get_fourierfilter(f) ==
  IF IsNone(f) THEN [ok |-> FALSE, val |-> <<>>, err |-> "Exception"]
  ELSE [ok |-> TRUE, val |-> Val(f), err |-> ""]
get_controlMatrix(cm) ==
  IF IsNone(cm) THEN [ok |-> FALSE, val |-> <<>>, err |-> "Exception"]
  ELSE [ok |-> TRUE, val |-> Val(cm), err |-> ""]

GetFourierFilter ==
  LET r == get_fourierfilter(fft_filter)
  IN  /\ Serve("get_fourierfilter", <<>>, r.val, r.err)
      /\ UNCHANGED <<devVars, localVars, handed, trace, cam>>

GetControlMatrix ==
  LET r == get_controlMatrix(controlMatrix)
  IN  /\ Serve("get_controlMatrix", <<>>, r.val, r.err)
      /\ UNCHANGED <<devVars, localVars, handed, trace, cam>>

SetControlMatrix ==
  \E m \in Matrices :
    /\ Serve("set_controlMatrix", [controlMatrix |-> m], <<>>, "")
    /\ controlMatrix' = Some(m)
    /\ aoAlg' = [aoAlg EXCEPT !.controlMatrix = Some(m)]
    /\ UNCHANGED <<roi, mask, fft_filter, flat_actuators_sys, localVars, handed, trace, cam>>

\* set_phase: the array it sends and returns, [ok, val, err]
\* (a variant that adds the product instead of its negation)
set_phaseAddsProduct(cm, applied_z_modes, offset) ==
  LET r == ac_pos_from_zernike(cm, applied_z_modes, NumAct)
  IN  IF ~r.ok THEN r
      ELSE [ok |-> TRUE, err |-> "",
            val |-> send([a \in Actuators |->
                       r.val[a] + (IF IsNone(offset) THEN Half ELSE Val(offset)[a])])]
set_phase(cm, applied_z_modes, offset) ==
  LET r == ac_pos_from_zernike(cm, applied_z_modes, NumAct)
  IN  IF ~r.ok THEN r
      ELSE [ok |-> TRUE, err |-> "",
            val |-> send([a \in Actuators |->
                       (0 - r.val[a]) + (IF IsNone(offset) THEN Half ELSE Val(offset)[a])])]

SetPhase ==
  \E z \in ModalVectors, offset \in Offsets, ok \in BOOLEAN :
    LET r == set_phase(aoAlg.controlMatrix, z, offset)
    IN  /\ Serve("set_phase", [applied_z_modes |-> z, offset |-> offset], r.val,
                 IF ~r.ok THEN r.err ELSE IF ok THEN "" ELSE "MirrorError")
        /\ IF r.ok THEN Apply(r.val, ok) ELSE UNCHANGED <<handed, trace>>
        /\ UNCHANGED <<devVars, localVars, cam>>

\* ------------------------------------------------------------------ acquire
Timeout == "ERROR 10: Timeout"
CameraErrors == {Timeout, "ERROR 11: Not ready"}

\* the frame as the camera delivers it
DataRaw(img) == [img |-> img, side |-> CamSide, crop |-> None, masked |-> FALSE]

\* entering acquire from a caller that continues at label back
CallAcquire(back) ==
  /\ pc' = "acq_trigger"
  /\ stack' = <<back>> \o stack
  /\ acq' = [raw |-> FALSE, retries |-> 0]

Acquire ==
  /\ Begin("acquire", <<>>, "acq_trigger")
  /\ acq' = [raw |-> FALSE, retries |-> 0]
  /\ UNCHANGED <<devVars, fl, cal, ass, aup, ccm, handed, trace, cam, ret>>

AcquireRaw ==
  /\ Begin("acquire_raw", <<>>, "acq_trigger")
  /\ acq' = [raw |-> TRUE, retries |-> 0]
  /\ UNCHANGED <<devVars, fl, cal, ass, aup, ccm, handed, trace, cam, ret>>

\* soft_trigger and get_current_image succeed: the loop ends, acquire crops to
\* the region of interest and multiplies by the mask, acquire_raw does neither
AcquireCapture ==
  /\ pc = "acq_trigger"
  /\ \E img \in Images :
       /\ cam' = [answer |-> "image", id |-> img.id]
       /\ trace' = Log(trace, "trigger")
       /\ IF acq.raw \/ IsNone(roi)
            THEN Return(DataRaw(img)) /\ UNCHANGED <<mask, aoAlg>>
            ELSE LET radius == Val(roi)[3]
                     cropped == [img |-> img, side |-> 2 * radius, crop |-> roi,
                                 masked |-> FALSE]
                 IN  IF IsNone(mask)
                       THEN /\ mask' = Some(MakeMask(radius))
                            /\ aoAlg' = [aoAlg EXCEPT !.mask = Some(MakeMask(radius))]
                            /\ Return(cropped)
                       ELSE /\ UNCHANGED <<mask, aoAlg>>
                            /\ IF Val(mask).side = 2 * radius
                                 THEN Return([cropped EXCEPT !.masked = TRUE])
                                 ELSE Raise("ValueError")
  /\ acq' = NoAcq
  /\ UNCHANGED <<roi, fft_filter, controlMatrix, flat_actuators_sys, fl, cal, ass, aup, ccm,
                 handed, args>>

\* soft_trigger or get_current_image raises e
\* (a variant that retries after every error)
AcquireExceptionRetriesAll ==
  /\ pc = "acq_trigger"
  /\ \E e \in CameraErrors :
       /\ cam' = [answer |-> e, id |-> 0]
       /\ trace' = Log(trace, "trigger")
       /\ pc' = "acq_sleep" /\ UNCHANGED <<stack, ret, call>>
  /\ UNCHANGED <<devVars, localVars, handed, args>>
\* (a variant that gives up after MaxRetries retries)
AcquireExceptionGivesUp ==
  /\ pc = "acq_trigger"
  /\ \E e \in CameraErrors :
       /\ cam' = [answer |-> e, id |-> 0]
       /\ trace' = Log(trace, "trigger")
       /\ IF e = Timeout /\ acq.retries < MaxRetries
            THEN pc' = "acq_sleep" /\ UNCHANGED <<stack, ret, call>>
            ELSE Raise(e)
  /\ UNCHANGED <<devVars, localVars, handed, args>>
AcquireException ==
  /\ pc = "acq_trigger"
  /\ \E e \in CameraErrors :
       /\ cam' = [answer |-> e, id |-> 0]
       /\ trace' = Log(trace, "trigger")
       /\ IF e = Timeout
            THEN pc' = "acq_sleep" /\ UNCHANGED <<stack, ret, call>>
            ELSE Raise(e)
  /\ UNCHANGED <<devVars, localVars, handed, args>>

\* time.sleep(1), then the loop triggers again
AcquireSleep ==
  /\ pc = "acq_sleep"
  /\ pc' = "acq_trigger"
  /\ trace' = Log(trace, "sleep")
  /\ acq' = [acq EXCEPT !.retries = Min(acq.retries + 1, MaxRetries)]
  /\ UNCHANGED <<devVars, fl, cal, ass, aup, ccm, handed, cam, stack, call, args, ret>>

\* ------------------------------------------------------------------ filter and unwrap
\* The device fields an operation reads and writes, as one record
Dev == [roi |-> roi, mask |-> mask, fft_filter |-> fft_filter, aoAlg |-> aoAlg]
SetDev(d) ==
  /\ mask' = d.mask
  /\ fft_filter' = d.fft_filter
  /\ aoAlg' = d.aoAlg

\* the device's make_mask
make_mask(d, radius) ==
  [d EXCEPT !.mask = Some(MakeMask(radius)), !.aoAlg.mask = Some(MakeMask(radius))]

\* set_fourierfilter: [ok, err, dev]; a failure of make_fft_filter is logged and
\* the filter held so far is returned
set_fourierfilter(d, test_image) ==
  IF IsNone(d.roi) THEN [ok |-> FALSE, err |-> "Exception", dev |-> d]
  ELSE LET f == make_fft_filter(test_image)
       IN  [ok |-> TRUE, err |-> "",
            dev |-> IF f.ok
                      THEN [d EXCEPT !.fft_filter = f.filter, !.aoAlg.fft_filter = f.filter]
                      ELSE d]

\* phaseunwrap of an image the caller supplies: [ok, err, out, dev]
phaseunwrap(d, image) ==
  IF IsNone(d.roi) THEN [ok |-> FALSE, err |-> "Exception", out |-> None, dev |-> d]
  ELSE LET d1 == IF IsNone(d.mask) THEN make_mask(d, image.side \div 2) ELSE d
           d2 == IF IsNone(d1.fft_filter) THEN set_fourierfilter(d1, image).dev ELSE d1
           u  == phase_unwrap(d2.aoAlg, image)
       IN  [ok |-> u.ok, err |-> u.err, out |-> u.out, dev |-> d2]

\* images a remote caller supplies: already cropped to a square of some radius
SuppliedImages ==
  { [img |-> img, side |-> 2 * radius, crop |-> None, masked |-> FALSE] :
      img \in Images, radius \in 1..MaxRadius }

\* set_fourierfilter(test_image) as a remote call: it returns the filter it holds
SetFourierFilter ==
  \E test_image \in SuppliedImages :
    LET r == set_fourierfilter(Dev, test_image)
    IN  /\ Serve("set_fourierfilter", [test_image |-> test_image], r.dev.fft_filter, r.err)
        /\ SetDev(r.dev)
        /\ UNCHANGED <<roi, controlMatrix, flat_actuators_sys, localVars, handed, trace, cam>>

\* phaseunwrap(image) as a remote call
PhaseUnwrap ==
  \E image \in SuppliedImages :
    LET u == phaseunwrap(Dev, image)
    IN  /\ Serve("phaseunwrap", [image |-> image], IF u.ok THEN Val(u.out) ELSE <<>>, u.err)
        /\ SetDev(u.dev)
        /\ UNCHANGED <<roi, controlMatrix, flat_actuators_sys, localVars, handed, trace, cam>>

\* createcontrolmatrix(imageStack, ...): after the region of interest is checked
\* and mask and filter are made, the call of aoAlg.create_control_matrix passes
\* the device as an extra first argument and pupil_ac twice: TypeError
createcontrolmatrix(d, first) ==
  IF IsNone(d.roi) THEN [ok |-> FALSE, err |-> "Exception", dev |-> d]
  ELSE LET d1 == IF IsNone(d.mask) THEN make_mask(d, first.side \div 2) ELSE d
           d2 == IF IsNone(d1.fft_filter) THEN set_fourierfilter(d1, first).dev ELSE d1
       IN  [ok |-> FALSE, err |-> "TypeError", dev |-> d2]

CreateControlMatrix ==
  \E first \in SuppliedImages :
    LET r == createcontrolmatrix(Dev, first)
    IN  /\ Serve("createcontrolmatrix", [imageStack |-> <<first>>], <<>>, r.err)
        /\ SetDev(r.dev)
        /\ UNCHANGED <<roi, controlMatrix, flat_actuators_sys, localVars, handed, trace, cam>>

\* ------------------------------------------------------------------ flatten_phase
Ignores == {None, Some(<<1>>), Some(<<0, 1>>)}

\* range(numActuators) > 2: Python 3 raises TypeError, Python 2 answers True,
\* and z_amps * True is z_amps
DefaultIgnore == { [ok |-> FALSE, val |-> <<>>], [ok |-> TRUE, val |-> <<1>>] }

\* z_amps * z_modes_ignore with numpy's broadcasting: [ok, val]
Times(z_amps, ignore) ==
  IF Len(ignore) = Len(z_amps)
    THEN [ok |-> TRUE, val |-> [k \in 1..Len(z_amps) |-> z_amps[k] * ignore[k]]]
  ELSE IF Len(ignore) = 1
    THEN [ok |-> TRUE, val |-> [k \in 1..Len(z_amps) |-> z_amps[k] * ignore[1]]]
  ELSE [ok |-> FALSE, val |-> <<>>]

CallFlatten(iterations, z_modes_ignore) ==
  fl' = [NoFl EXCEPT !.iterations = iterations, !.z_modes_ignore = z_modes_ignore]

FlattenPhase ==
  \E iterations \in 0..MaxIter, z_modes_ignore \in Ignores :
    /\ Begin("flatten_phase",
             [iterations |-> iterations, z_modes_ignore |-> z_modes_ignore], "fl_enter")
    /\ CallFlatten(iterations, z_modes_ignore)
    /\ UNCHANGED <<devVars, acq, cal, ass, aup, ccm, handed, trace, cam, ret>>

\* the region of interest must be set; without a filter a test image is acquired
FlattenEnter ==
  /\ pc = "fl_enter"
  /\ IF IsNone(roi) THEN Raise("Exception") /\ UNCHANGED acq
     ELSE IF IsNone(fft_filter) THEN CallAcquire("fl_filter") /\ UNCHANGED <<ret, call>>
     ELSE pc' = "fl_check" /\ UNCHANGED <<stack, ret, call, acq>>
  /\ UNCHANGED <<devVars, fl, cal, ass, aup, ccm, handed, trace, cam, args>>

FlattenFilter ==
  /\ pc = "fl_filter"
  /\ LET r == set_fourierfilter(Dev, Val(ret))
     IN  IF r.ok THEN SetDev(r.dev) /\ pc' = "fl_check" /\ UNCHANGED <<stack, ret, call>>
         ELSE Raise(r.err) /\ UNCHANGED <<mask, fft_filter, aoAlg>>
  /\ UNCHANGED <<roi, controlMatrix, flat_actuators_sys, localVars, handed, trace, cam, args>>

\* the control matrix must have one row per actuator; the mirror is set to 0.5
\* everywhere and the uncorrected wavefront is acquired
FlattenCheck ==
  /\ pc = "fl_check"
  /\ \E ignore \in (IF IsNone(fl.z_modes_ignore)
                      THEN DefaultIgnore
                      ELSE {[ok |-> TRUE, val |-> Val(fl.z_modes_ignore)]}),
        ok \in BOOLEAN :
       IF IsNone(controlMatrix)
         THEN Raise("ValueError") /\ UNCHANGED <<fl, acq, handed, trace>>
       ELSE IF Rows(Val(controlMatrix)) # NumAct
         THEN Raise("Exception") /\ UNCHANGED <<fl, acq, handed, trace>>
       ELSE IF ~ignore.ok
         THEN Raise("TypeError") /\ UNCHANGED <<fl, acq, handed, trace>>
       ELSE /\ fl' = [fl EXCEPT !.nzernike = Cols(Val(controlMatrix)),
                                !.z_modes_ignore = Some(ignore.val),
                                !.best_flat_actuators = send(HalfVector)]
            /\ Apply(HalfVector, ok)
            /\ IF ok THEN CallAcquire("fl_first") /\ UNCHANGED <<ret, call>>
               ELSE Raise("MirrorError") /\ UNCHANGED acq
  /\ UNCHANGED <<devVars, cal, ass, aup, ccm, cam, args>>

\* the RMS of the uncorrected wavefront is the best so far
FlattenFirst ==
  /\ pc = "fl_first"
  /\ LET u == phaseunwrap(Dev, Val(ret))
     IN  /\ SetDev(u.dev)
         /\ IF ~u.ok THEN Raise(u.err) /\ UNCHANGED <<fl, acq>>
            ELSE /\ fl' = [fl EXCEPT !.best_rms_error = rms_error(Val(u.out).phase)]
                 /\ IF fl.iterations > 0
                      THEN CallAcquire("fl_iter") /\ UNCHANGED <<ret, call>>
                      ELSE pc' = "fl_final" /\ UNCHANGED <<stack, ret, call, acq>>
  /\ UNCHANGED <<roi, controlMatrix, flat_actuators_sys, cal, ass, aup, ccm, handed, trace, cam, args>>

\* one iteration up to the command: unwrap the interferogram just acquired,
\* decompose, drop the ignored modes, set_phase around the best command so far
FlattenIter ==
  /\ pc = "fl_iter"
  /\ \E ok \in BOOLEAN :
       LET u == phaseunwrap(Dev, Val(ret))
           z == Times(get_zernike_modes(Val(u.out), fl.nzernike), Val(fl.z_modes_ignore))
           r == set_phase(aoAlg.controlMatrix, z.val, Some(fl.best_flat_actuators))
       IN  /\ SetDev(u.dev)
           /\ IF ~u.ok THEN Raise(u.err) /\ UNCHANGED <<fl, handed, trace>>
              ELSE IF ~z.ok THEN Raise("ValueError") /\ UNCHANGED <<fl, handed, trace>>
              ELSE IF ~r.ok THEN Raise(r.err) /\ UNCHANGED <<fl, handed, trace>>
              ELSE /\ Apply(r.val, ok)
                   /\ fl' = [fl EXCEPT !.z_amps = z.val, !.flat_actuators = r.val,
                                       !.interferogram_unwrap = Val(u.out).phase]
                   /\ IF ok THEN pc' = "fl_sleep" /\ UNCHANGED <<stack, ret, call>>
                      ELSE Raise("MirrorError")
  /\ UNCHANGED <<roi, controlMatrix, flat_actuators_sys, acq, cal, ass, aup, ccm, cam, args>>

\* time.sleep(1)
FlattenSleep ==
  /\ pc = "fl_sleep"
  /\ pc' = "fl_compare"
  /\ trace' = Log(trace, "sleep")
  /\ UNCHANGED <<devVars, localVars, handed, cam, stack, call, args, ret>>

\* the three-way comparison of this iteration's RMS with the best so far
Best(f, rms) ==
  IF rms < f.best_rms_error
    THEN [f EXCEPT !.best_z_amps = f.z_amps,
                   !.best_flat_actuators = f.flat_actuators,
                   !.best_rms_error = rms]
  ELSE IF rms > f.best_rms_error
    THEN f
  ELSE [f EXCEPT !.best_flat_actuators = f.flat_actuators]

\* the RMS is taken of interferogram_unwrap, the map unwrapped before the command
FlattenCompare ==
  /\ pc = "fl_compare"
  /\ LET rms == rms_error(fl.interferogram_unwrap)
     IN  /\ fl' = [Best(fl, rms) EXCEPT !.rms_error = rms, !.ii = fl.ii + 1]
         /\ IF fl.ii + 1 < fl.iterations
              THEN CallAcquire("fl_iter")
              ELSE pc' = "fl_final" /\ UNCHANGED <<stack, acq>>
  /\ UNCHANGED <<devVars, cal, ass, aup, ccm, handed, trace, cam, call, args, ret>>

\* the best command is sent and returned
\* (a variant that sends the last command instead of the best)
FlattenFinalSendsLast ==
  /\ pc = "fl_final"
  /\ \E ok \in BOOLEAN :
       /\ Apply(fl.flat_actuators, ok)
       /\ IF ok THEN Return(send(fl.best_flat_actuators)) ELSE Raise("MirrorError")
  /\ UNCHANGED <<devVars, localVars, cam, args>>
FlattenFinal ==
  /\ pc = "fl_final"
  /\ \E ok \in BOOLEAN :
       /\ Apply(fl.best_flat_actuators, ok)
       /\ IF ok THEN Return(send(fl.best_flat_actuators)) ELSE Raise("MirrorError")
  /\ UNCHANGED <<devVars, localVars, cam, args>>

\* ------------------------------------------------------------------ calibrate
CalModes == 69       \* noZernikeModes = 69
CalIterations == 25  \* flatten_phase(iterations=25, ...)
PokeStepChoices == {1, 2}

\* np.linspace(poke_min, poke_max, numPokeSteps) with poke_min 0.25, poke_max 0.75
linspace(numPokeSteps) ==
  [j \in 1..numPokeSteps |->
     IF numPokeSteps = 1 THEN One \div 4
     ELSE (One \div 4) + ((j - 1) * (((3 * One) \div 4) - (One \div 4))) \div (numPokeSteps - 1)]

\* row c of actuator_values: 0.5 everywhere but the poked actuator
ActuatorValues(numPokeSteps, c) ==
  [a \in Actuators |->
     IF a = ((c - 1) \div numPokeSteps) + 1
       THEN linspace(numPokeSteps)[((c - 1) % numPokeSteps) + 1]
       ELSE Half]

Calibrate ==
  \E numPokeSteps \in PokeStepChoices :
    /\ Begin("calibrate", [numPokeSteps |-> numPokeSteps], "cal_enter")
    /\ cal' = [NoCal EXCEPT !.numPokeSteps = numPokeSteps]
    /\ UNCHANGED <<devVars, acq, fl, ass, aup, ccm, handed, trace, cam, ret>>

\* the exposure time is set before anything is checked; then the region of
\* interest must be set and a test image is acquired
CalibrateEnter ==
  /\ pc = "cal_enter"
  /\ \E ok \in BOOLEAN :
       /\ trace' = Log(trace, IF ok THEN "exposure" ELSE "exposure_error")
       /\ IF ~ok THEN Raise("ERROR 11: Not ready") /\ UNCHANGED acq
          ELSE IF IsNone(roi) THEN Raise("Exception") /\ UNCHANGED acq
          ELSE CallAcquire("cal_test") /\ UNCHANGED <<ret, call>>
  /\ UNCHANGED <<devVars, fl, cal, ass, aup, ccm, handed, cam, args>>

\* mask and filter are built from the test image when missing
CalibrateTest ==
  /\ pc = "cal_test"
  /\ LET d1 == IF IsNone(mask) THEN make_mask(Dev, Val(roi)[3]) ELSE Dev
         d2 == IF IsNone(d1.fft_filter) THEN set_fourierfilter(d1, Val(ret)).dev ELSE d1
     IN  SetDev(d2)
  /\ pc' = "cal_poke"
  /\ UNCHANGED <<roi, controlMatrix, flat_actuators_sys, localVars, handed, trace, cam,
                 stack, call, args, ret>>

\* one frame of the poke sequence: the command is sent, an error of the mirror
\* is logged and passed over, the frame is acquired
CalibratePoke ==
  /\ pc = "cal_poke"
  /\ cal.curr < cal.numPokeSteps * NumAct
  /\ \E ok \in BOOLEAN : Apply(ActuatorValues(cal.numPokeSteps, cal.curr + 1), ok)
  /\ CallAcquire("cal_frame")
  /\ UNCHANGED <<devVars, fl, cal, ass, aup, ccm, cam, call, args, ret>>

CalibrateFrame ==
  /\ pc = "cal_frame"
  /\ cal' = [cal EXCEPT !.curr = cal.curr + 1, !.image_stack_cropped = Append(@, Val(ret))]
  /\ pc' = "cal_poke"
  /\ UNCHANGED <<devVars, acq, fl, ass, aup, ccm, handed, trace, cam, stack, call, args, ret>>

\* after the last frame: reset the mirror, compute and store the control
\* matrix, then flatten with piston, tip, tilt and defocus meant to be ignored.
\* Of the CalModes modes the first MaxModes are kept, of the CalIterations
\* iterations the first MaxIter are run.  The image stack is not read again.
CalibrateMatrix ==
  /\ pc = "cal_poke"
  /\ cal.curr = cal.numPokeSteps * NumAct
  /\ \E ok \in BOOLEAN, ignore \in DefaultIgnore :
       LET m == create_control_matrix(aoAlg, cal.image_stack_cropped, NumAct,
                                      Min(CalModes, MaxModes),
                                      linspace(cal.numPokeSteps),
                                      [a \in Actuators |-> 1])
       IN  /\ Apply(HalfVector, ok)
           /\ IF ~ok
                THEN Raise("MirrorError") /\ UNCHANGED <<controlMatrix, aoAlg, fl>>
              ELSE IF ~m.ok
                THEN Raise(m.err) /\ UNCHANGED <<controlMatrix, aoAlg, fl>>
              ELSE /\ controlMatrix' = m.controlMatrix
                   /\ aoAlg' = [aoAlg EXCEPT !.controlMatrix = m.controlMatrix]
                   /\ IF ~ignore.ok
                        THEN Raise("TypeError") /\ UNCHANGED fl
                        ELSE /\ CallFlatten(Min(CalIterations, MaxIter), Some(ignore.val))
                             /\ pc' = "fl_enter"
                             /\ stack' = <<"cal_done">> \o stack
                             /\ UNCHANGED <<ret, call>>
  /\ cal' = NoCal
  /\ UNCHANGED <<roi, mask, fft_filter, flat_actuators_sys, acq, ass, aup, ccm, cam, args>>

CalibrateDone ==
  /\ pc = "cal_done"
  /\ flat_actuators_sys' = Val(ret)
  /\ Return([controlMatrix |-> controlMatrix, flat_actuators_sys |-> Val(ret)])
  /\ UNCHANGED <<roi, mask, fft_filter, controlMatrix, aoAlg, localVars, handed, trace,
                 cam, args>>

\* ------------------------------------------------------------------ acquire_unwrapped_phase, measure_zernike
CallAup(for, noZernikeModes, back) ==
  /\ aup' = [for |-> for, noZernikeModes |-> noZernikeModes]
  /\ pc' = "aup_enter"
  /\ stack' = <<back>> \o stack

AcquireUnwrappedPhase ==
  /\ Begin("acquire_unwrapped_phase", <<>>, "aup_enter")
  /\ aup' = [for |-> "acquire_unwrapped_phase", noZernikeModes |-> 0]
  /\ UNCHANGED <<devVars, acq, fl, cal, ass, ccm, handed, trace, cam, ret>>

MeasureZernike ==
  \E noZernikeModes \in 1..MaxModes :
    /\ Begin("measure_zernike", [noZernikeModes |-> noZernikeModes], "aup_enter")
    /\ aup' = [for |-> "measure_zernike", noZernikeModes |-> noZernikeModes]
    /\ UNCHANGED <<devVars, acq, fl, cal, ass, ccm, handed, trace, cam, ret>>

\* wavefront_rms_error: phase_map is the pair acquire_unwrapped_phase returns,
\* and the mean runs over the interferogram's pixels and the unwrapped ones
WavefrontRmsError ==
  /\ Begin("wavefront_rms_error", <<>>, "aup_enter")
  /\ aup' = [for |-> "wavefront_rms_error", noZernikeModes |-> 0]
  /\ UNCHANGED <<devVars, acq, fl, cal, ass, ccm, handed, trace, cam, ret>>

\* the intensities of an interferogram's pixels
Pixels(image) == <<image.img.raw, image.img.raw>>

wavefront_rms(interferogram, interferogram_unwrap) ==
  rms_error(Pixels(interferogram) \o interferogram_unwrap.phase)

AupEnter ==
  /\ pc = "aup_enter"
  /\ IF IsNone(roi) THEN Raise("Exception") /\ UNCHANGED acq
     ELSE IF IsNone(fft_filter) THEN CallAcquire("aup_filter") /\ UNCHANGED <<ret, call>>
     ELSE CallAcquire("aup_image") /\ UNCHANGED <<ret, call>>
  /\ UNCHANGED <<devVars, fl, cal, ass, aup, ccm, handed, trace, cam, args>>

AupFilter ==
  /\ pc = "aup_filter"
  /\ SetDev(set_fourierfilter(Dev, Val(ret)).dev)
  /\ CallAcquire("aup_image")
  /\ UNCHANGED <<roi, controlMatrix, flat_actuators_sys, fl, cal, ass, aup, ccm,
                 handed, trace, cam, call, args, ret>>

\* the interferogram is unwrapped; measure_zernike goes on to decompose it
AupImage ==
  /\ pc = "aup_image"
  /\ LET u == phaseunwrap(Dev, Val(ret))
     IN  /\ SetDev(u.dev)
         /\ IF ~u.ok THEN Raise(u.err)
            ELSE IF aup.for = "measure_zernike"
              THEN Return(get_zernike_modes(Val(u.out), aup.noZernikeModes))
            ELSE IF aup.for = "wavefront_rms_error"
              THEN Return(wavefront_rms(Val(ret), Val(u.out)))
            ELSE Return([interferogram |-> Val(ret), interferogram_unwrap |-> Val(u.out)])
  /\ UNCHANGED <<roi, controlMatrix, flat_actuators_sys, localVars, handed, trace, cam, args>>

\* ------------------------------------------------------------------ assess_character
ModesTba == {None, Some(1)}

AssessCharacter ==
  \E modes_tba \in ModesTba :
    /\ Begin("assess_character", [modes_tba |-> modes_tba], "as_enter")
    /\ ass' = [NoAss EXCEPT !.modes_tba = IF IsNone(modes_tba) THEN NumAct ELSE Val(modes_tba)]
    /\ UNCHANGED <<devVars, acq, fl, cal, aup, ccm, handed, trace, cam, ret>>

\* without a filter a test image is acquired, before any check of the region of interest
AssessEnter ==
  /\ pc = "as_enter"
  /\ IF IsNone(fft_filter) THEN CallAcquire("as_filter") /\ UNCHANGED <<ret, call>>
     ELSE pc' = "as_loop" /\ UNCHANGED <<stack, ret, call, acq>>
  /\ UNCHANGED <<devVars, fl, cal, ass, aup, ccm, handed, trace, cam, args>>

AssessFilter ==
  /\ pc = "as_filter"
  /\ LET r == set_fourierfilter(Dev, Val(ret))
     IN  IF r.ok THEN SetDev(r.dev) /\ pc' = "as_loop" /\ UNCHANGED <<stack, ret, call>>
         ELSE Raise(r.err) /\ UNCHANGED <<mask, fft_filter, aoAlg>>
  /\ UNCHANGED <<roi, controlMatrix, flat_actuators_sys, localVars, handed, trace, cam, args>>

\* each mode: reset the mirror and measure; after the last mode reset and return
AssessLoop ==
  /\ pc = "as_loop"
  /\ \E ok \in BOOLEAN :
       /\ Apply(HalfVector, ok)
       /\ IF ~ok THEN Raise("MirrorError") /\ UNCHANGED aup
          ELSE IF ass.ii < ass.modes_tba
            THEN CallAup("measure_zernike", ass.modes_tba, "as_before") /\ UNCHANGED <<ret, call>>
          ELSE Return(ass.assay) /\ UNCHANGED aup
  /\ UNCHANGED <<devVars, acq, fl, cal, ass, ccm, cam, args>>

\* the mode is applied with set_phase and measured again
AssessBefore ==
  /\ pc = "as_before"
  /\ \E ok \in BOOLEAN :
       LET applied_z_modes == [k \in 1..ass.modes_tba |-> IF k = ass.ii + 1 THEN 1 ELSE 0]
           r == set_phase(aoAlg.controlMatrix, applied_z_modes, None)
       IN  IF ~r.ok THEN Raise(r.err) /\ UNCHANGED <<handed, trace, ass, aup>>
           ELSE /\ Apply(r.val, ok)
                /\ IF ~ok THEN Raise("MirrorError") /\ UNCHANGED <<ass, aup>>
                   ELSE /\ ass' = [ass EXCEPT !.z_modes_ac0 = Val(ret)]
                        /\ CallAup("measure_zernike", ass.modes_tba, "as_after")
                        /\ UNCHANGED <<ret, call>>
  /\ UNCHANGED <<devVars, acq, fl, cal, ccm, cam, args>>

AssessAfter ==
  /\ pc = "as_after"
  /\ ass' = [ass EXCEPT !.ii = ass.ii + 1,
                        !.assay = Append(@, [k \in 1..ass.modes_tba |->
                                               Val(ret)[k] - ass.z_modes_ac0[k]])]
  /\ pc' = "as_loop"
  /\ UNCHANGED <<devVars, acq, fl, cal, aup, ccm, handed, trace, cam, stack, call, args, ret>>

\* ------------------------------------------------------------------ create_control_matrix, step by step
NumPoke == 3         \* len(pokeSteps)
CmModes == 1         \* noZernikeModes
CalRadius == 50      \* half the side of the frames of the image stack

PokeSteps == [j \in 1..NumPoke |-> j]

\* frames of side 2 * CalRadius: flat and whole, tilted with as many
\* discontinuities as x*y/1000 allows, and torn with one more
CmFrames ==
  LET side == 2 * CalRadius
      limit == (side * side) \div 1000
      frame(id, phase, nd) ==
        [img |-> [id |-> id, raw |-> 1, phase |-> phase, nd |-> nd, fine |-> FALSE],
         side |-> side, crop |-> Some(<<CalRadius, CalRadius, CalRadius>>), masked |-> TRUE]
  IN  { frame(1, <<0, 0>>, 0), frame(2, <<1, 0 - 1>>, limit), frame(3, <<2, 1>>, limit + 1) }

CmFilter == Some([side |-> 2 * CalRadius, crop |-> Some(<<CalRadius, CalRadius, CalRadius>>)])
OldMatrix == [a \in Actuators |-> [k \in 1..CmModes |-> 1]]

\* create_control_matrix is called with a filter and a mask that fit the frames,
\* with or without a control matrix from before
InitCM ==
  /\ roi = Some(<<CalRadius, CalRadius, CalRadius>>)
  /\ mask = Some(MakeMask(CalRadius))
  /\ fft_filter = CmFilter
  /\ flat_actuators_sys = [a \in Actuators |-> 0]
  /\ \E previous \in {None, Some(OldMatrix)}, pupil_ac \in [Actuators -> {0, 1}] :
       /\ controlMatrix = previous
       /\ aoAlg = [mask |-> Some(MakeMask(CalRadius)), fft_filter |-> CmFilter,
                   controlMatrix |-> previous]
       /\ ccm = [NoCcm EXCEPT !.pupil_ac = pupil_ac, !.previous = previous,
                              !.C_mat = [a \in Actuators |-> ZeroColumn(CmModes)]]
       /\ args = [pupil_ac |-> pupil_ac]
  /\ handed = <<>> /\ trace = <<>> /\ cam = NoCam
  /\ pc = "ccm_loop" /\ stack = <<"done">>
  /\ call = [op |-> "create_control_matrix", status |-> "running", error |-> "", n |-> 1]
  /\ ret = None
  /\ acq = NoAcq /\ fl = NoFl /\ cal = NoCal /\ ass = NoAss /\ aup = NoAup

\* an actuator in the pupil: its frames are unwrapped and fitted; the message of
\* the Exception names the actuator, counted from 1.  The image stack is drawn
\* actuator by actuator as the loop reaches it.
CcmActuator ==
  /\ pc = "ccm_loop"
  /\ ccm.ii < NumAct
  /\ ccm.pupil_ac[ccm.ii + 1] = 1
  /\ \E frames \in [1..NumPoke -> CmFrames] :
       LET f == FitActuator(aoAlg, frames, PokeSteps, CmModes)
       IN  /\ ccm' = [ccm EXCEPT !.ii = IF f.ok THEN ccm.ii + 1 ELSE @,
                                 !.imageStack = Append(@, frames),
                                 !.pokeSteps_trimmed = f.pokeSteps_trimmed,
                                 !.zernikeModeAmp = f.zernikeModeAmp,
                                 !.C_mat = IF f.ok THEN [@ EXCEPT ![ccm.ii + 1] = f.slopes]
                                           ELSE @,
                                 !.named = IF f.ok THEN @ ELSE ccm.ii + 1]
           /\ IF f.ok THEN UNCHANGED <<pc, stack, ret, call>> ELSE Raise(f.err)
  /\ UNCHANGED <<devVars, acq, fl, cal, ass, aup, handed, trace, cam, args>>

\* an actuator outside the pupil is skipped: its column stays zero
CcmSkip ==
  /\ pc = "ccm_loop"
  /\ ccm.ii < NumAct
  /\ ccm.pupil_ac[ccm.ii + 1] # 1
  /\ ccm' = [ccm EXCEPT !.ii = ccm.ii + 1, !.imageStack = Append(@, <<>>)]
  /\ UNCHANGED <<devVars, acq, fl, cal, ass, aup, handed, trace, cam, args, pc, stack, ret, call>>

\* after the last actuator the pseudo-inverse is stored and returned
CcmFinish ==
  /\ pc = "ccm_loop"
  /\ ccm.ii = NumAct
  /\ aoAlg' = [aoAlg EXCEPT !.controlMatrix = Some(pinv(ccm.C_mat, NumAct, CmModes))]
  /\ Return(pinv(ccm.C_mat, NumAct, CmModes))
  /\ UNCHANGED <<roi, mask, fft_filter, controlMatrix, flat_actuators_sys, localVars,
                 handed, trace, cam, args>>

NextCM == CcmActuator \/ CcmSkip \/ CcmFinish
SpecCM == InitCM /\ [][NextCM]_vars

Next ==
  \/ Send \/ QueuePatterns \/ Reset \/ SetRoi \/ SetControlMatrix \/ SetPhase
  \/ Acquire \/ AcquireRaw \/ AcquireCapture \/ AcquireException \/ AcquireSleep
  \/ FlattenPhase \/ FlattenEnter \/ FlattenFilter \/ FlattenCheck \/ FlattenFirst
  \/ FlattenIter \/ FlattenSleep \/ FlattenCompare \/ FlattenFinal
  \/ Calibrate \/ CalibrateEnter \/ CalibrateTest \/ CalibratePoke \/ CalibrateFrame
  \/ CalibrateMatrix \/ CalibrateDone
  \/ AcquireUnwrappedPhase \/ MeasureZernike \/ AupEnter \/ AupFilter \/ AupImage
  \/ AssessCharacter \/ AssessEnter \/ AssessFilter \/ AssessLoop \/ AssessBefore \/ AssessAfter
  \/ Ack
Spec == Init /\ [][Next]_vars

\* ------------------------------------------------------------------ flatten_phase alone
NextFl ==
  \/ SetRoi \/ SetControlMatrix
  \/ FlattenPhase \/ FlattenEnter \/ FlattenFilter \/ FlattenCheck \/ FlattenFirst
  \/ FlattenIter \/ FlattenSleep \/ FlattenCompare \/ FlattenFinal
  \/ AcquireCapture \/ AcquireException \/ AcquireSleep
  \/ Ack
SpecFl == Init /\ [][NextFl]_vars

\* ------------------------------------------------------------------ acquire alone
\* The sleep of a retry ends and the loop triggers the camera, which answers;
\* and a camera that is triggered again and again answers at some time with an
\* image or with an error that is no timeout.
CameraAnswers ==
  \/ AcquireCapture
  \/ AcquireException /\ cam'.answer # Timeout
NextAcq ==
  \/ SetRoi \/ Acquire \/ AcquireRaw
  \/ AcquireCapture \/ AcquireException \/ AcquireSleep
  \/ Ack
SpecAcq ==
  /\ Init /\ [][NextAcq]_vars
  /\ WF_vars(AcquireSleep)
  /\ WF_vars(AcquireCapture \/ AcquireException)
  /\ SF_vars(CameraAnswers)

\* ------------------------------------------------------------------ ac_pos_from_zernike alone
ZVectors == UNION { [1..n -> {0 - 1, 0, 1}] : n \in 0..(MaxModes + 1) }

InitZ ==
  /\ roi = None /\ mask = None /\ fft_filter = None
  /\ flat_actuators_sys = [a \in Actuators |-> 0]
  /\ \E cm \in {None} \cup { Some(m) : m \in Matrices }, z \in ZVectors :
       /\ controlMatrix = cm
       /\ aoAlg = [mask |-> None, fft_filter |-> None, controlMatrix |-> cm]
       /\ args = [applied_z_modes |-> z, numActuators |-> NumAct]
  /\ handed = <<>> /\ trace = <<>> /\ cam = NoCam
  /\ pc = "acz" /\ stack = <<"done">>
  /\ call = [op |-> "ac_pos_from_zernike", status |-> "running", error |-> "", n |-> 1]
  /\ ret = None
  /\ acq = NoAcq /\ fl = NoFl /\ cal = NoCal /\ ass = NoAss /\ aup = NoAup /\ ccm = NoCcm

AcPosFromZernike ==
  /\ pc = "acz"
  /\ LET r == ac_pos_from_zernike(aoAlg.controlMatrix, args.applied_z_modes, args.numActuators)
     IN  IF r.ok THEN Return(r.val) ELSE Raise(r.err)
  /\ UNCHANGED <<devVars, localVars, handed, trace, cam, args>>

NextZ == AcPosFromZernike
SpecZ == InitZ /\ [][NextZ]_vars

\* ------------------------------------------------------------------ properties
\* the newest n events of a trace
Newest(tr, n) == IF Len(tr) <= n THEN tr ELSE SubSeq(tr, Len(tr) - n + 1, Len(tr))

Clamped(v) == IF v > One THEN One ELSE IF v < 0 THEN 0 ELSE v

\* C1: whatever the device operation, every actuator value handed to the mirror
\* (apply_pattern or queue_patterns) lies in [0, 1]; of the values send and
\* queue_patterns are called with, those above 1 arrive as 1 and those below 0
\* arrive as 0.
C1_HandedWithinUnitRange ==
  /\ \A p \in 1..Len(handed) : \A a \in DOMAIN handed[p] : handed[p][a] \in 0..One
  /\ (pc = "done" /\ call.op = "send") =>
       handed = <<[a \in Actuators |-> Clamped(args.values[a])]>>
  /\ (pc = "done" /\ call.op = "queue_patterns") =>
       handed = [p \in 1..Len(args.patterns) |->
                   [a \in Actuators |-> Clamped(args.patterns[p][a])]]

C1_Witness ==
  /\ pc = "done" /\ call.op = "send" /\ call.status = "returned"
  /\ args.values = [a \in Actuators |-> IF a = 1 THEN ValMax ELSE ValMin]
  /\ handed = <<[a \in Actuators |-> IF a = 1 THEN One ELSE 0]>>

\* C2: in an iteration of flatten_phase the best actuator vector is overwritten
\* only when the iteration's RMS is strictly less than the best RMS so far; an
\* RMS equal to or greater than it leaves the best actuator vector as it was.
C2_BestOverwrittenOnlyOnStrictImprovement ==
  [][pc = "fl_compare" /\ ~(fl'.rms_error < fl.best_rms_error)
       => fl'.best_flat_actuators = fl.best_flat_actuators]_vars

\* an iteration whose RMS equals the best so far, with another command
C2_Witness ==
  /\ pc = "fl_compare"
  /\ rms_error(fl.interferogram_unwrap) = fl.best_rms_error
  /\ fl.flat_actuators # fl.best_flat_actuators

\* C3: in every iteration of flatten_phase the command is sent, the settle delay
\* is waited, and then the phase is measured again: when the RMS is compared
\* with the best so far, the newest hardware events are the command, the sleep
\* and the trigger of the camera, in this order.
C3_MeasuredAfterCommand ==
  pc = "fl_compare" => Newest(trace, 3) = <<"apply", "sleep", "trigger">>

\* an iteration at the comparison: the newest events are trigger, command, sleep
C3_Witness ==
  /\ pc = "fl_compare"
  /\ Newest(trace, 3) = <<"trigger", "apply", "sleep">>
  /\ handed = <<fl.flat_actuators>>

\* C4: when flatten_phase returns it has run the given number of iterations,
\* the last command handed to the mirror is the best actuator vector tracked,
\* and the value returned equals that command.
C4_ReturnsBestAfterAllIterations ==
  (pc = "done" /\ call.op = "flatten_phase" /\ call.status = "returned") =>
    /\ fl.ii = args.iterations
    /\ Newest(trace, 1) = <<"apply">>
    /\ handed = <<fl.best_flat_actuators>>
    /\ Val(ret) = handed[1]

C4_Witness ==
  /\ pc = "done" /\ call.op = "flatten_phase" /\ call.status = "returned"
  /\ args.iterations = MaxIter
  /\ fl.best_flat_actuators # HalfVector
  /\ fl.best_flat_actuators # fl.flat_actuators

\* C5: in acquire and acquire_raw only the timeout of the camera is retried:
\* the sleep of a retry follows a timeout and is followed by the next trigger;
\* any other error of the camera reaches the caller and no hardware event
\* follows it; the image returned is that of the last capture.
OtherErrors == CameraErrors \ {Timeout}
C5_OnlyTimeoutIsRetried ==
  /\ [](pc = "acq_sleep" => cam.answer = Timeout)
  /\ [][pc = "acq_sleep" => pc' = "acq_trigger" /\ Newest(trace', 1) = <<"sleep">>]_vars
  /\ [](cam.answer \in OtherErrors =>
          pc = "done" /\ call.status = "raised" /\ call.error = cam.answer)
  /\ [][cam.answer \in OtherErrors => trace' = trace \/ trace' = <<>>]_vars
  /\ []((pc = "done" /\ call.op \in {"acquire", "acquire_raw"} /\ call.status = "returned")
          => cam.answer = "image" /\ Val(ret).img.id = cam.id
             /\ Newest(trace, 1) = <<"trigger">>)

\* an image returned after a timeout and a retry
C5_Witness ==
  /\ pc = "done" /\ call.op = "acquire" /\ call.status = "returned"
  /\ Newest(trace, 3) = <<"trigger", "sleep", "trigger">>
  /\ cam.answer = "image"

\* C6: acquire has no bound on its retries: a timeout, however many came before
\* it, is followed by the sleep and the next trigger; and once the camera
\* answers with an image or another error, acquire ends.
C6_RetriesWithoutBound ==
  /\ [][pc = "acq_trigger" /\ cam'.answer = Timeout => pc' = "acq_sleep"]_vars
  /\ (pc = "acq_sleep") ~> (pc = "acq_trigger")
  /\ (pc \in {"acq_trigger", "acq_sleep"}) ~> (pc = "done")

\* one more timeout after as many retries as are counted
C6_Witness ==
  /\ pc = "acq_sleep" /\ acq.retries = MaxRetries /\ cam.answer = Timeout

\* the frames of one actuator that are not rejected: their indices, in order
RetainedOf(frames) ==
  LET Keep(j) == ~(frames[j].img.nd * 1000 > frames[j].side * frames[j].side)
  IN  SelectSeq([j \in 1..Len(frames) |-> j], Keep)

\* the included actuators reached so far that retain fewer than 2 frames
ShortOf(c) ==
  { a \in 1..Len(c.imageStack) : c.pupil_ac[a] = 1 /\ Len(RetainedOf(c.imageStack[a])) < 2 }

\* C7: create_control_matrix (its frames can be unwrapped) fails exactly when an
\* included actuator retains fewer than 2 frames; the error names the first such
\* actuator, the actuators before it were fitted, and nothing is returned or
\* stored: the stored control matrix is the one from before the call.
C7_FailsAtFirstShortActuator ==
  /\ (call.status = "raised") <=> (ShortOf(ccm) # {})
  /\ (ShortOf(ccm) # {}) =>
       LET first == CHOOSE a \in ShortOf(ccm) : \A b \in ShortOf(ccm) : a <= b
       IN  /\ pc = "done" /\ call.error = "Exception" /\ ccm.named = first
           /\ Len(ccm.imageStack) = first
           /\ \A a \in 1..(first - 1) :
                ccm.C_mat[a] = IF ccm.pupil_ac[a] = 1
                                 THEN FitActuator(aoAlg, ccm.imageStack[a], PokeSteps,
                                                  CmModes).slopes
                                 ELSE ZeroColumn(CmModes)
           /\ ret = None
           /\ aoAlg.controlMatrix = ccm.previous
  /\ (pc = "done" /\ call.status = "returned") =>
       Len(ccm.imageStack) = NumAct /\ aoAlg.controlMatrix = ret

C7_Witness ==
  /\ pc = "done" /\ call.status = "raised"
  /\ ccm.pupil_ac = [a \in Actuators |-> 1]
  /\ ccm.named = 2
  /\ Len(RetainedOf(ccm.imageStack[2])) = 1
  /\ ccm.previous # None /\ aoAlg.controlMatrix = ccm.previous

\* the actuator fitted last, 0 when none was
LastFitted(c) == IF Len(c.imageStack) > 0 /\ c.pupil_ac[Len(c.imageStack)] = 1
                   THEN Len(c.imageStack) ELSE 0

\* the frames that enter the fit of the actuator fitted last are the frames
\* whose count of discontinuities is at most x*y/1000, with their poke values
FitOfRetainedFrames(c) ==
  LastFitted(c) > 0 =>
    LET frames == c.imageStack[LastFitted(c)]
        kept == RetainedOf(frames)
    IN  /\ c.pokeSteps_trimmed = [k \in 1..Len(kept) |-> PokeSteps[kept[k]]]
        /\ c.zernikeModeAmp =
             [k \in 1..Len(kept) |->
                [i \in 1..CmModes |-> Dot(Zernike(i), frames[kept[k]].img.phase)]]

SomeFrameDiscarded(c) ==
  \E a \in 1..Len(c.imageStack) :
    c.pupil_ac[a] = 1 /\ Len(RetainedOf(c.imageStack[a])) < NumPoke

\* C8 as stated: a frame is discarded exactly when its count of discontinuities
\* is greater than x*y/1000, only the retained frames enter the fit, and a
\* discarded frame never aborts the calibration: all actuators are processed.
C8_DiscardNeverAborts ==
  /\ FitOfRetainedFrames(ccm)
  /\ SomeFrameDiscarded(ccm) => call.status # "raised"

\* C8, amended: a frame is discarded exactly when its count of discontinuities
\* is greater than x*y/1000 and only the retained frames, with their poke
\* values, enter the fit; the other frames of the actuator are still processed,
\* and the later actuators are processed as long as every included actuator
\* retains at least 2 frames: the calibration is aborted only at an actuator that
\* retains fewer than 2.
C8_DiscardAbortsOnlyBelowTwo ==
  /\ FitOfRetainedFrames(ccm)
  /\ call.status = "raised" =>
       /\ LastFitted(ccm) > 0
       /\ Len(RetainedOf(ccm.imageStack[LastFitted(ccm)])) < 2
  /\ (pc = "done" /\ call.status = "returned") => ccm.ii = NumAct

\* a frame of the first actuator is discarded, one with x*y/1000 discontinuities
\* is retained, and the second actuator is fitted
C8_Witness ==
  /\ pc = "done" /\ call.status = "returned"
  /\ ccm.pupil_ac = [a \in Actuators |-> 1]
  /\ Len(RetainedOf(ccm.imageStack[1])) = NumPoke - 1
  /\ \E j \in 1..NumPoke :
       ccm.imageStack[1][j].img.nd * 1000 = ccm.imageStack[1][j].side * ccm.imageStack[1][j].side
  /\ Len(ccm.pokeSteps_trimmed) = NumPoke

\* the modal vector padded with zeros on the right to n entries
Padded(z, n) == [k \in 1..n |-> IF k <= Len(z) THEN z[k] ELSE 0]

\* C9: a modal vector shorter than the mode dimension of the control matrix is
\* padded with zeros on the right: the call succeeds and returns the product of
\* the control matrix with the padded vector.
C9_ShorterVectorIsPadded ==
  (/\ pc = "done" /\ call.op = "ac_pos_from_zernike"
   /\ ~IsNone(aoAlg.controlMatrix)
   /\ Rows(Val(aoAlg.controlMatrix)) = NumAct
   /\ Len(args.applied_z_modes) < Cols(Val(aoAlg.controlMatrix)))
    => /\ call.status = "returned"
       /\ Val(ret) = MatVec(Val(aoAlg.controlMatrix),
                            Padded(args.applied_z_modes, Cols(Val(aoAlg.controlMatrix))))

\* a vector of one entry with a control matrix of two modes
C9_Witness ==
  /\ pc = "done" /\ call.op = "ac_pos_from_zernike"
  /\ ~IsNone(aoAlg.controlMatrix)
  /\ Rows(Val(aoAlg.controlMatrix)) = NumAct
  /\ Len(args.applied_z_modes) = 1 /\ Cols(Val(aoAlg.controlMatrix)) = 2
  /\ call.status = "raised" /\ call.error = "ValueError"

\* C10: a modal vector longer than the mode dimension of the control matrix is
\* cut to its first entries, without error: the result is the product with those
\* entries, and the entries beyond them have no effect on it.
C10_LongerVectorIsTruncated ==
  (/\ pc = "done" /\ call.op = "ac_pos_from_zernike"
   /\ ~IsNone(aoAlg.controlMatrix)
   /\ Rows(Val(aoAlg.controlMatrix)) = NumAct
   /\ Len(args.applied_z_modes) > Cols(Val(aoAlg.controlMatrix)))
    => LET m == Val(aoAlg.controlMatrix)
           z == args.applied_z_modes
       IN  /\ call.status = "returned"
           /\ Val(ret) = [a \in 1..NumAct |->
                            SumSeq([k \in 1..Cols(m) |-> m[a][k] * z[k]])]
           /\ \A w \in ZVectors :
                (Len(w) >= Cols(m) /\ SubSeq(w, 1, Cols(m)) = SubSeq(z, 1, Cols(m)))
                  => ac_pos_from_zernike(aoAlg.controlMatrix, w, NumAct).val = Val(ret)

C10_Witness ==
  /\ pc = "done" /\ call.op = "ac_pos_from_zernike" /\ call.status = "returned"
  /\ Cols(Val(aoAlg.controlMatrix)) = 1
  /\ args.applied_z_modes = <<1, 0 - 1>>
  /\ Val(ret) = [a \in 1..NumAct |-> Val(aoAlg.controlMatrix)[a][1]]

\* ------------------------------------------------------------------ set_phase alone
NextPh == SetControlMatrix \/ SetPhase \/ Ack
SpecPh == Init /\ [][NextPh]_vars

\* the offset set_phase adds: 0.5 everywhere when none is given
OffsetOf(offset) == IF IsNone(offset) THEN HalfVector ELSE Val(offset)

InitRoi ==
  /\ \E radius \in 1..MaxRadius :
       LET r == Some(<<CamSide \div 2, CamSide \div 2, radius>>)
           f == Some([side |-> 2 * radius, crop |-> r])
       IN  /\ roi = r /\ mask = Some(MakeMask(radius)) /\ fft_filter = f
           /\ aoAlg = [mask |-> Some(MakeMask(radius)), fft_filter |-> f, controlMatrix |-> None]
  /\ controlMatrix = None
  /\ flat_actuators_sys = [a \in Actuators |-> 0]
  /\ handed = <<>> /\ trace = <<>> /\ cam = NoCam
  /\ pc = "idle" /\ stack = <<>>
  /\ call = NoCall /\ args = <<>> /\ ret = None
  /\ acq = NoAcq /\ fl = NoFl /\ cal = NoCal /\ ass = NoAss /\ aup = NoAup /\ ccm = NoCcm

NextRoi ==
  \/ SetRoiMoved \/ SetControlMatrix \/ GetFourierFilter \/ GetControlMatrix
  \/ SetFourierFilter \/ PhaseUnwrap
  \/ AcquireUnwrappedPhase \/ WavefrontRmsError \/ AupEnter \/ AupFilter \/ AupImage
  \/ AcquireCapture \/ AcquireException \/ AcquireSleep
  \/ Ack

SpecRoi == InitRoi /\ [][NextRoi]_vars

\* C12: when set_roi has returned, the mask is the one of the new radius, and
\* get_fourierfilter and get_controlMatrix both report that nothing exists,
\* whatever filter or control matrix the device held before the call.
C12_SetRoiInvalidatesFilterAndMatrix ==
  (pc = "done" /\ call.op = "set_roi")
    => /\ mask = Some(MakeMask(args.radius))
       /\ ~get_fourierfilter(fft_filter).ok
       /\ ~get_controlMatrix(controlMatrix).ok

\* set_roi has returned on a device that held a filter and a control matrix:
\* the filter is gone, the matrix is the one get_controlMatrix still returns
C12_Witness ==
  /\ pc = "done" /\ call.op = "set_roi" /\ call.status = "returned"
  /\ mask = Some(MakeMask(args.radius))
  /\ ~get_fourierfilter(fft_filter).ok
  /\ ~IsNone(aoAlg.fft_filter)
  /\ get_controlMatrix(controlMatrix).ok

\* C14: when make_fft_filter fails on the test image, set_fourierfilter raises,
\* and an operation that asked for the filter does not go on to acquire and
\* unwrap an interferogram with the filter still missing.
C14_FilterFailureIsFatal ==
  /\ (pc = "done" /\ call.op = "set_fourierfilter" /\ ~IsNone(roi)
       /\ ~make_fft_filter(args.test_image).ok)
        => call.status = "raised"
  /\ (pc = "aup_image" => ~IsNone(fft_filter))

\* set_fourierfilter has returned, with no filter, on an image whose stripes
\* are too fine
C14_Witness ==
  /\ pc = "done" /\ call.op = "set_fourierfilter" /\ ~IsNone(roi)
  /\ ~make_fft_filter(args.test_image).ok
  /\ call.status = "returned" /\ ret = Some(None) /\ IsNone(fft_filter)

\* C15: during calibrate or flatten_phase an error of the mirror or of the
\* camera (other than the timeout that is retried) ends the procedure: the call
\* has raised, and nothing was asked of the camera or the mirror after it.
C15_HardwareErrorAborts ==
  call.op \in {"calibrate", "flatten_phase"}
    => /\ \A i \in 1..Len(trace) :
            trace[i] \in {"apply_error", "exposure_error"}
              => (i = Len(trace) /\ pc = "done" /\ call.status = "raised")
       /\ cam.answer \in (CameraErrors \ {Timeout})
            => (pc = "done" /\ call.status = "raised")

\* calibrate: the mirror refused a poke pattern and the camera was triggered
\* for that poke's frame all the same
C15_Witness ==
  /\ call.op = "calibrate" /\ call.status = "running"
  /\ Len(trace) >= 2
  /\ trace[Len(trace) - 1] = "apply_error" /\ trace[Len(trace)] = "trigger"
  /\ cam.answer = "image"

\* C17: an unwrapped phase that acquire_unwrapped_phase returns was computed
\* with a filter made for the region of interest in force, never with one made
\* from an image of a region that set_roi has since replaced.
C17_NoUnwrapWithStaleFilter ==
  (pc = "done" /\ call.op = "acquire_unwrapped_phase" /\ call.status = "returned")
    => Val(ret).interferogram_unwrap.filter.crop \in {roi, None}

\* acquire_unwrapped_phase has returned a phase unwrapped with the filter of
\* an earlier region, while the device itself holds no filter
C17_Witness ==
  /\ pc = "done" /\ call.op = "acquire_unwrapped_phase" /\ call.status = "returned"
  /\ IsNone(fft_filter)
  /\ LET crop == Val(ret).interferogram_unwrap.filter.crop
     IN  ~IsNone(crop) /\ crop # roi /\ Val(crop)[3] = Val(roi)[3]

\* C18: flatten_phase called without z_modes_ignore does not fail for the lack
\* of it, and in each iteration the modal vector that goes to set_phase has its
\* first three coefficients at zero and the others as measured.
C18_DefaultIgnoresFirstThreeModes ==
  (call.op = "flatten_phase" /\ IsNone(args.z_modes_ignore))
    => /\ ~(pc = "done" /\ call.error = "TypeError" /\ IsNone(fl.z_modes_ignore))
       /\ pc = "fl_sleep"
            => LET measured == get_zernike_modes([phase |-> fl.interferogram_unwrap],
                                                 fl.nzernike)
               IN  fl.z_amps = [k \in 1..fl.nzernike |-> IF k <= 3 THEN 0 ELSE measured[k]]

\* flatten_phase without z_modes_ignore, on a device with region of interest,
\* filter and control matrix, has raised where the default is made, before the
\* mirror was commanded
C18_Witness ==
  /\ pc = "done" /\ call.op = "flatten_phase" /\ IsNone(args.z_modes_ignore)
  /\ call.status = "raised" /\ call.error = "TypeError"
  /\ IsNone(fl.z_modes_ignore) /\ handed = <<>>
  /\ ~IsNone(roi) /\ ~IsNone(fft_filter) /\ ~IsNone(controlMatrix)

\* the image the camera delivered last
LastImage == CHOOSE img \in Images : img.id = cam.id

\* C20: what wavefront_rms_error returns is determined by the unwrapped phase
\* map alone: it is the RMS that flatten_phase takes of that map.
C20_RmsOfUnwrappedPhaseAlone ==
  (pc = "done" /\ call.op = "wavefront_rms_error" /\ call.status = "returned")
    => Val(ret) = rms_error(LastImage.phase)

\* wavefront_rms_error has returned a positive RMS for an interferogram whose
\* unwrapped phase is flat
C20_Witness ==
  /\ pc = "done" /\ call.op = "wavefront_rms_error" /\ call.status = "returned"
  /\ LastImage.phase = <<0, 0>> /\ rms_error(LastImage.phase) = 0
  /\ Val(ret) = rms_error(<<LastImage.raw, LastImage.raw, 0, 0>>)
  /\ Val(ret) > 0

\* ------------------------------------------------------------------ measure_fourier_metric
MaxSegs == 4

\* An image enters by its power spectrum over the num_segs rings between the
\* num_segs + 1 radii: spectrum[k] is the logarithm of the RMS power of ring k
Levels == {0, 1, 2}
Spectra(num_segs) == [1..num_segs -> Levels]

\* the loop over range(0, num_segs - 1): ring ii lies between radii[ii] and
\* radii[ii + 1], and RMS_metrics gets one entry per pass
RMS_metrics(spectrum, num_segs) == [ii \in 1..(num_segs - 1) |-> spectrum[ii]]

\* the points of the regression: the index of each entry against its logarithm
Regressed(metrics) == [k \in 1..Len(metrics) |-> <<k - 1, metrics[k]>>]

InitFm ==
  /\ roi = None /\ mask = None /\ fft_filter = None /\ controlMatrix = None
  /\ flat_actuators_sys = [a \in Actuators |-> 0]
  /\ aoAlg = [mask |-> None, fft_filter |-> None, controlMatrix |-> None]
  /\ \E num_segs \in 1..MaxSegs : \E spectrum \in Spectra(num_segs) :
       args = [image |-> spectrum, num_segs |-> num_segs]
  /\ handed = <<>> /\ trace = <<>> /\ cam = NoCam
  /\ pc = "mfm" /\ stack = <<"done">>
  /\ call = [op |-> "measure_fourier_metric", status |-> "running", error |-> "", n |-> 1]
  /\ ret = None
  /\ acq = NoAcq /\ fl = NoFl /\ cal = NoCal /\ ass = NoAss /\ aup = NoAup /\ ccm = NoCcm

\* With fewer than two entries no line is determined: linregress raises or
\* answers nan, by its version
MeasureFourierMetric ==
  /\ pc = "mfm"
  /\ LET m == RMS_metrics(args.image, args.num_segs)
         out == [RMS_metrics |-> m, regressed |-> Regressed(m)]
     IN  IF Len(m) >= 2 THEN Return(out)
         ELSE Raise("ValueError") \/ Return(out)
  /\ UNCHANGED <<devVars, localVars, handed, trace, cam, args>>

NextFm == MeasureFourierMetric
SpecFm == InitFm /\ [][NextFm]_vars

\* C19: measure_fourier_metric with ring count n takes the RMS of each of the
\* n rings, the outermost one included, and fits the line over exactly n points.
C19_OneMetricPerRing ==
  (pc = "done" /\ call.op = "measure_fourier_metric" /\ call.status = "returned")
    => /\ Len(Val(ret).RMS_metrics) = args.num_segs
       /\ Val(ret).RMS_metrics = args.image
       /\ Len(Val(ret).regressed) = args.num_segs

\* a call with three rings has returned: two were measured, the outermost was not
C19_Witness ==
  /\ pc = "done" /\ call.op = "measure_fourier_metric" /\ call.status = "returned"
  /\ args.num_segs = 3
  /\ Val(ret).RMS_metrics = <<args.image[1], args.image[2]>>
  /\ Len(Val(ret).regressed) = 2

\* ------------------------------------------------------------------ make_mask
MaxMaskRadius == 5

\* make_mask(radius) as a remote call: the mask is stored and returned
RemoteMakeMask ==
  \E radius \in 1..MaxMaskRadius :
    /\ Serve("make_mask", [radius |-> radius], MaskGrid(radius), "")
    /\ SetDev(make_mask(Dev, radius))
    /\ UNCHANGED <<roi, controlMatrix, flat_actuators_sys, localVars, handed, trace, cam>>

NextMask == RemoteMakeMask \/ SetRoiMoved \/ Ack
SpecMask == Init /\ [][NextMask]_vars

IsGrid(g, side) ==
  /\ Len(g) = side
  /\ \A i \in 1..side : Len(g[i]) = side /\ \A j \in 1..side : g[i][j] \in BOOLEAN

NextNoRoi ==
  \/ SetFourierFilter \/ PhaseUnwrap \/ CreateControlMatrix
  \/ AcquireUnwrappedPhase \/ MeasureZernike \/ WavefrontRmsError \/ AupEnter
  \/ Calibrate \/ CalibrateEnter
  \/ FlattenPhase \/ FlattenEnter
  \/ AssessCharacter \/ AssessEnter \/ AssessFilter
  \/ AcquireCapture \/ AcquireException \/ AcquireSleep
  \/ Ack

SpecNoRoi == Init /\ [][NextNoRoi]_vars

RoiOps ==
  {"set_fourierfilter", "phaseunwrap", "createcontrolmatrix", "acquire_unwrapped_phase",
   "measure_zernike", "wavefront_rms_error", "calibrate", "flatten_phase", "assess_character"}

\* C13: an operation that needs the region of interest, called while none is
\* set, raises before the camera is configured or triggered and before the
\* mirror is commanded, and leaves mask, filter and control matrix as they were.
C13_NoRoiFailsBeforeHardware ==
  (IsNone(roi) /\ call.op \in RoiOps)
    => /\ trace = <<>> /\ handed = <<>>
       /\ (pc = "done" => call.status = "raised")
       /\ mask = None /\ fft_filter = None /\ controlMatrix = None

\* calibrate without a region of interest has raised, after the camera took the
\* exposure time
C13_Witness ==
  /\ pc = "done" /\ call.op = "calibrate" /\ IsNone(roi)
  /\ call.status = "raised" /\ call.error = "Exception"
  /\ trace = <<"exposure">>
====
